---- MODULE Spec2Model ----
(***************************************************************************)
(* Model of src/macc.js: the MACC community visualization.  draw(data)     *)
(* turns the host's rows into sorted, accumulated chart items and rebuilds *)
(* the scene under the root container; the bars' pointer handlers drive    *)
(* the single shared tooltip and the click-to-filter emission.             *)
(*                                                                         *)
(* JS Numbers are modelled as records [k, v]: k = "fin" with the integer   *)
(* value v, k = "nan", or k = "inf" (+Infinity).  Sums of quantities are   *)
(* rounded as IEEE-754 addition rounds them (round to nearest, ties to     *)
(* even); the 53-bit significand is scaled down to MantissaBits bits.      *)
(* Pixel coordinates are exact rationals [k, n, d].                        *)
(***************************************************************************)
EXTENDS Integers, Sequences, FiniteSets, TLC

VARIABLES
    root,       \* children of the #macc-root container, in document order
    tooltip,    \* the shared tooltip element: its visibility and content
    locals,     \* draw's locals of the latest call, captured by the handlers
    hover,      \* index of the bar the pointer has entered, 0 when none
    lastClick,  \* log of the latest click dispatched to a bar of the scene
    data,       \* the data object of the latest (or the pending) draw call
    drawn       \* whether draw has run

vars == <<root, tooltip, locals, hover, lastClick, data, drawn>>

\* ---------------------------------------------------------------- bounds
MaxRows == 3         \* rows of a table in the pipeline specification
MaxHostRows == 2     \* rows of a table in the interactive specification
MantissaBits == 4    \* significand width of the scaled-down Number format

\* ------------------------------------------------------------- constants
MarginTop == 28
MarginRight == 20
MarginBottom == 38
MarginLeft == 60
MinPlotWidth == 100
MinPlotHeight == 80
xTicks == 6
yTicks == 5
DefaultDecimals == 2

\* ------------------------------------------------------------ JS Numbers
Fin(n) == [k |-> "fin", v |-> n]
NaN == [k |-> "nan", v |-> 0]
PosInf == [k |-> "inf", v |-> 1]

isFinite(x) == x.k = "fin"
isNaN(x) == x.k = "nan"

\* x > 0 as JS evaluates it (false for NaN)
GtZero(x) == \/ x.k = "inf"
             \/ x.k = "fin" /\ x.v > 0

\* x >= 0 as JS evaluates it (false for NaN)
GeZero(x) == \/ x.k = "inf"
             \/ x.k = "fin" /\ x.v >= 0

\* x <= y as JS evaluates it on finite or NaN operands (false with a NaN)
NumLeq(x, y) == x.k = "fin" /\ y.k = "fin" /\ x.v <= y.v

\* JS truthiness of a Number: 0 and NaN are falsy
Truthy(x) == ~(x.k = "nan" \/ (x.k = "fin" /\ x.v = 0))

RECURSIVE UlpFrom(_, _)
UlpFrom(n, u) == IF n < (2 ^ MantissaBits) * u THEN u ELSE UlpFrom(n, 2 * u)

\* the representable value nearest to the non-negative integer n, ties to even
Fl(n) ==
    LET u == UlpFrom(n, 1)
        lo == (n \div u) * u
        r == n - lo
    IN  IF 2 * r < u THEN lo
        ELSE IF 2 * r > u THEN lo + u
        ELSE IF (lo \div u) % 2 = 0 THEN lo ELSE lo + u

\* a + b on non-negative finite Numbers
FlAdd(a, b) == Fl(a + b)

\* ------------------------------------------------------------- helpers
\* getStyle(styleObj, key, fallback).  A style bag is [t, e]: t = "bag" with
\* e the entry stored under the key, or t = "throws" (the lookup raises).
\* An entry is [present, value, defaultValue]; a value is a Number or Undef.
Undef == [k |-> "undef", v |-> 0]

getStyle(styleObj, fallback) ==
    IF styleObj.t = "throws" THEN fallback
    ELSE LET v == styleObj.e
         IN  IF ~v.present THEN fallback
             ELSE IF v.value # Undef THEN v.value
             ELSE IF v.defaultValue # Undef THEN v.defaultValue
             ELSE fallback

\* fmtNumber(x, decimals): "" for NaN, otherwise the value printed with
\* exactly `decimals` fraction digits
fmtNumber(x, decimals) ==
    IF isNaN(x) THEN [text |-> "empty", value |-> x, digits |-> 0]
    ELSE [text |-> "number", value |-> x, digits |-> decimals]

clearKeepsChildren(el) == el
clear(el) == <<>>

\* --------------------------------------------------------------- tooltip
NoHtml == [action |-> "", abatement |-> NaN, cost |-> NaN]

\* the tooltip's content for item d: its label, quantity and cost
TooltipHtml(d) == [action |-> d.action, abatement |-> d.abatement, cost |-> d.cost]

showTooltip(html) == [visibility |-> "visible", html |-> html]
hideTooltip == [visibility |-> "hidden", html |-> tooltip.html]

\* ------------------------------------------------------- draw: the style
\* const styles = data.style || {}
styles(d) ==
    IF d.style.t = "missing"
    THEN [t |-> "bag", e |-> [present |-> FALSE, value |-> Undef, defaultValue |-> Undef]]
    ELSE d.style

\* const decimals = Number(getStyle(styles, 'decimals', 2)) || 2
decimals(d) ==
    LET n == getStyle(styles(d), Fin(DefaultDecimals))
    IN  IF Truthy(n) THEN n.v ELSE DefaultDecimals

\* ------------------------------------------------------ draw: the fields
NoField == "null"

actionFields(d) == IF d.fields.present THEN d.fields.actionDim ELSE <<>>

actionFieldIdLast(d) ==
    IF Len(actionFields(d)) # 0 THEN actionFields(d)[Len(actionFields(d))].id ELSE NoField
actionFieldId(d) ==
    IF Len(actionFields(d)) # 0 THEN actionFields(d)[1].id ELSE NoField

FILTER == "FILTER"

\* -------------------------------------------------------- draw: the rows
\* A raw cell is [t, s, v]: t = "missing" (the field's array is absent or its
\* first element is null/undefined), t = "text" (a non-numeric string s), or
\* t = "num" (the Number v).
Placeholder == "-"

\* Number((cell && cell[0]) ?? 0)
NumberOf(cell) ==
    IF cell.t = "missing" THEN Fin(0)
    ELSE IF cell.t = "text" THEN NaN
    ELSE cell.v

\* (cell && cell[0]) ?? fallback
LabelOf(cell, fallback) == IF cell.t = "missing" THEN fallback ELSE cell.s

\* the object rows.map builds for row r; `row` is the row's input position,
\* kept to state the sort's stability
ToItem(r, i) ==
    [row |-> i,
     action |-> LabelOf(r.actionDim, Placeholder),
     abatement |-> NumberOf(r.abatementMetric),
     cost |-> NumberOf(r.costMetric),
     category |-> LabelOf(r.categoryDim, "null"),
     x0 |-> 0, x1 |-> 0]

\* the filter's predicate
Keep(d) == isFinite(d.abatement) /\ GtZero(d.abatement)

RECURSIVE MapFilter(_, _)
MapFilter(rows, i) ==
    IF i > Len(rows) THEN <<>>
    ELSE LET d == ToItem(rows[i], i)
         IN  (IF Keep(d) THEN <<d>> ELSE <<>>) \o MapFilter(rows, i + 1)

\* const items = rows.map(...).filter(...)
Normalize(d) == MapFilter(d.rows, 1)

\* -------------------------------------------------------- draw: the sort
\* the comparator (a, b) => a.cost - b.cost as sort reads it: the sign of the
\* difference, and 0 when the difference is NaN
Cmp(a, b) ==
    IF a.cost.k = "fin" /\ b.cost.k = "fin"
    THEN (IF a.cost.v < b.cost.v THEN -1 ELSE IF a.cost.v > b.cost.v THEN 1 ELSE 0)
    ELSE 0

\* whether the comparator is a consistent comparator for the items
\* (ECMA-262, Array.prototype.sort); otherwise the order is implementation-defined
Consistent(items) ==
    \A i, j, k \in 1..Len(items) :
        /\ (Cmp(items[i], items[j]) = 0 /\ Cmp(items[j], items[k]) = 0)
               => Cmp(items[i], items[k]) = 0
        /\ (Cmp(items[i], items[j]) < 0 /\ Cmp(items[j], items[k]) < 0)
               => Cmp(items[i], items[k]) < 0
        /\ (Cmp(items[i], items[j]) < 0 /\ Cmp(items[j], items[k]) = 0)
               => Cmp(items[i], items[k]) < 0
        /\ (Cmp(items[i], items[j]) = 0 /\ Cmp(items[j], items[k]) < 0)
               => Cmp(items[i], items[k]) < 0

\* d inserted into the sorted sequence s after every element not greater than it
RECURSIVE Insert(_, _)
Insert(s, d) ==
    IF s = <<>> THEN <<d>>
    ELSE IF Cmp(s[Len(s)], d) > 0
         THEN Insert(SubSeq(s, 1, Len(s) - 1), d) \o <<s[Len(s)]>>
         ELSE s \o <<d>>

RECURSIVE StableSort(_)
StableSort(items) ==
    IF items = <<>> THEN <<>>
    ELSE Insert(StableSort(SubSeq(items, 1, Len(items) - 1)), items[Len(items)])

Reorderings(items) ==
    LET n == Len(items)
        P == {p \in [1..n -> 1..n] : \A i, j \in 1..n : i # j => p[i] # p[j]}
    IN  {[i \in 1..n |-> items[p[i]]] : p \in P}

\* the arrays items.sort((a,b) => a.cost - b.cost) can leave
SortOutcomes(items) ==
    IF Consistent(items) THEN {StableSort(items)} ELSE Reorderings(items)

\* ------------------------------------------------ draw: the accumulation
\* items.reduce((s,d) => s + d.abatement, 0)
RECURSIVE reduceSum(_, _)
reduceSum(items, s) ==
    IF items = <<>> THEN s
    ELSE reduceSum(Tail(items), FlAdd(s, Head(items).abatement.v))

totalAbatement(items) == reduceSum(items, 0)

RECURSIVE AccumulateFromZero(_, _)
AccumulateFromZero(items, acc) ==
    IF items = <<>> THEN <<>>
    ELSE LET d == Head(items)
         IN  <<[d EXCEPT !.x0 = 0, !.x1 = FlAdd(0, d.abatement.v)]>>
                 \o AccumulateFromZero(Tail(items), acc)
\* items.forEach(d => { d.x0 = acc; d.x1 = acc + d.abatement; acc = d.x1; })
RECURSIVE Accumulate(_, _)
Accumulate(items, acc) ==
    IF items = <<>> THEN <<>>
    ELSE LET d == Head(items)
             x1 == FlAdd(acc, d.abatement.v)
         IN  <<[d EXCEPT !.x0 = acc, !.x1 = x1]>> \o Accumulate(Tail(items), x1)

\* --------------------------------------------------- draw: the cost domain
RECURSIVE MinOf(_, _)
MinOf(items, m) ==
    IF items = <<>> THEN m
    ELSE LET c == Head(items).cost
         IN  IF m.k = "nan" \/ c.k = "nan" THEN NaN
             ELSE MinOf(Tail(items), IF c.v < m.v THEN c ELSE m)

RECURSIVE MaxOf(_, _)
MaxOf(items, m) ==
    IF items = <<>> THEN m
    ELSE LET c == Head(items).cost
         IN  IF m.k = "nan" \/ c.k = "nan" THEN NaN
             ELSE MaxOf(Tail(items), IF c.v > m.v THEN c ELSE m)

\* Math.min(0, ...items.map(d => d.cost))
minCost(items) == MinOf(items, Fin(0))
\* Math.max(0, ...items.map(d => d.cost))
maxCost(items) == MaxOf(items, Fin(0))

\* ------------------------------------------------------ draw: the scales
\* A pixel coordinate or axis value is an exact rational [k, n, d], d > 0,
\* or NaN.
Q(n, d) == [k |-> "fin", n |-> n, d |-> d]
QNaN == [k |-> "nan", n |-> 0, d |-> 1]

QEq(a, b) == a.k = "fin" /\ b.k = "fin" /\ a.n * b.d = b.n * a.d

\* Math.max(1, q)
Max1(q) == IF q.k = "nan" THEN QNaN ELSE IF q.n > q.d THEN q ELSE Q(1, 1)

\* Math.abs(a - b) for two coordinates over the same denominator
AbsDiff(a, b) ==
    IF a.k = "nan" \/ b.k = "nan" THEN QNaN
    ELSE Q((IF a.n * b.d >= b.n * a.d THEN a.n * b.d - b.n * a.d
                                      ELSE b.n * a.d - a.n * b.d), a.d * b.d)

\* a - b
QSub(a, b) ==
    IF a.k = "nan" \/ b.k = "nan" THEN QNaN ELSE Q(a.n * b.d - b.n * a.d, a.d * b.d)

\* a + k for an integer k
QPlus(a, k) == IF a.k = "nan" THEN QNaN ELSE Q(a.n + k * a.d, a.d)

\* a Number as a rational
QOf(x) == IF x.k = "fin" THEN Q(x.v, 1) ELSE QNaN

W(d) == IF d.width - MarginLeft - MarginRight > MinPlotWidth
        THEN d.width - MarginLeft - MarginRight ELSE MinPlotWidth
H(d) == IF d.height - MarginTop - MarginBottom > MinPlotHeight
        THEN d.height - MarginTop - MarginBottom ELSE MinPlotHeight

\* xScale(v) = m.left + (v / totalAbatement) * W, for the rational v
xScale(v, total, w) == Q(MarginLeft * total * v.d + v.n * w, total * v.d)

DomainWidthUnguarded(lo, hi) == hi.v - lo.v
\* maxCost - minCost || 1
DomainWidth(lo, hi) == IF hi.v - lo.v # 0 THEN hi.v - lo.v ELSE 1

\* yScale(v) = m.top + (H - (v - minCost) / (maxCost - minCost || 1) * H),
\* for the rational v; NaN when the divisor is 0 and the dividend is 0 too
yScale(v, lo, hi, h) ==
    IF v.k = "nan" \/ lo.k = "nan" \/ hi.k = "nan" THEN QNaN
    ELSE LET D == DomainWidth(lo, hi)
         IN  IF D = 0 THEN QNaN
             ELSE Q((MarginTop + h) * D * v.d - (v.n - lo.v * v.d) * h, D * v.d)

\* ------------------------------------------------------- draw: the scene
EmptyMessage == [tag |-> "div", role |-> "empty",
    text |-> "Adicione campos validos: Acao (dimensao), Abatimento (>0, metrica) e Custo marginal (metrica)."]

\* the baseline and, for i = 0..xTicks, a tick mark and its label
RECURSIVE xTickNodes(_, _, _, _, _)
xTickNodes(i, last, total, w, yZero) ==
    IF i > last THEN <<>>
    ELSE LET t == Q(total * i, xTicks)
         IN  <<[tag |-> "line", role |-> "tick", x |-> xScale(t, total, w), y |-> yZero],
               [tag |-> "text", role |-> "ticklabel", x |-> xScale(t, total, w),
                text |-> fmtNumber(t, 0)]>>
                 \o xTickNodes(i + 1, last, total, w, yZero)

axisGroupExclusive(total, w, yZero) ==
    [tag |-> "g", role |-> "axis",
     children |-> <<[tag |-> "line", role |-> "baseline", y |-> yZero]>>
                      \o xTickNodes(0, xTicks - 1, total, w, yZero)]
axisGroup(total, w, yZero) ==
    [tag |-> "g", role |-> "axis",
     children |-> <<[tag |-> "line", role |-> "baseline", y |-> yZero]>>
                      \o xTickNodes(0, xTicks, total, w, yZero)]

\* for i = 0..yTicks, a grid line and its label
RECURSIVE gridNodes(_, _, _, _, _, _)
gridNodes(i, last, lo, hi, h, dec) ==
    IF i > last THEN <<>>
    ELSE LET v == IF lo.k = "nan" \/ hi.k = "nan" THEN QNaN
                  ELSE Q(lo.v * yTicks + i * (hi.v - lo.v), yTicks)
         IN  <<[tag |-> "line", role |-> "grid", y |-> yScale(v, lo, hi, h)],
               [tag |-> "text", role |-> "gridlabel", y |-> QPlus(yScale(v, lo, hi, h), 4),
                text |-> fmtNumber(v, dec)]>>
                 \o gridNodes(i + 1, last, lo, hi, h, dec)

\* the rect of item d
Bar(d, total, w, lo, hi, h) ==
    LET x == xScale(Q(d.x0, 1), total, w)
        x2 == xScale(Q(d.x1, 1), total, w)
        yZero == yScale(Q(0, 1), lo, hi, h)
        yc == yScale(QOf(d.cost), lo, hi, h)
    IN  [tag |-> "rect", role |-> "bar", d |-> d,
         x |-> x, w |-> Max1(QSub(x2, x)),
         y |-> IF GeZero(d.cost) THEN yc ELSE yZero,
         h |-> Max1(AbsDiff(yc, yZero)),
         fill |-> IF GeZero(d.cost) THEN "posColor" ELSE "negColor"]

barGroup(items, total, w, lo, hi, h) ==
    [tag |-> "g", role |-> "bars",
     children |-> [i \in 1..Len(items) |-> Bar(items[i], total, w, lo, hi, h)]]

svg(items, total, lo, hi, dec, d) ==
    [tag |-> "svg", role |-> "chart",
     children |-> <<axisGroup(total, W(d), yScale(Q(0, 1), lo, hi, H(d)))>>
                      \o gridNodes(0, yTicks, lo, hi, H(d), dec)
                      \o <<barGroup(items, total, W(d), lo, hi, H(d))>>]

\* ------------------------------------------------------------ the inputs
MissingCell == [t |-> "missing", s |-> "", v |-> NaN]
TextCell(str) == [t |-> "text", s |-> str, v |-> NaN]
NumCell(x) == [t |-> "num", s |-> "", v |-> x]

Row(label, q, c) ==
    [actionDim |-> label, abatementMetric |-> q, costMetric |-> c,
     categoryDim |-> MissingCell]

NoStyle == [t |-> "missing",
            e |-> [present |-> FALSE, value |-> Undef, defaultValue |-> Undef]]
ThrowingStyle == [t |-> "throws",
                  e |-> [present |-> FALSE, value |-> Undef, defaultValue |-> Undef]]
StyleBag(present, value, default) ==
    [t |-> "bag", e |-> [present |-> present, value |-> value, defaultValue |-> default]]

NoFields == [present |-> FALSE, actionDim |-> <<>>]
Fields(ids) == [present |-> TRUE, actionDim |-> [i \in 1..Len(ids) |-> [id |-> ids[i]]]]

Data(rows, style, fields, onClick, width, height) ==
    [rows |-> rows, style |-> style, fields |-> fields,
     interactions |-> [onClick |-> onClick], width |-> width, height |-> height]

SeqsUpTo(S, n) == UNION {[1..k -> S] : k \in 0..n}

\* costs: non-numeric, missing (0), negative, positive
CostCells == {TextCell("abc"), MissingCell, NumCell(Fin(-3)), NumCell(Fin(5))}

ValidAbatementCells == {NumCell(Fin(3)), NumCell(Fin(16))}

\* every valid quantity with every cost, and one row of each invalid kind
PipelineRows ==
    {Row(TextCell("A"), q, c) : q \in ValidAbatementCells, c \in CostCells}
    \cup {Row(TextCell("A"), TextCell("abc"), NumCell(Fin(5))),
          Row(TextCell("A"), MissingCell, NumCell(Fin(5))),
          Row(TextCell("A"), NumCell(Fin(-2)), TextCell("abc")),
          Row(TextCell("A"), NumCell(PosInf), NumCell(Fin(-3)))}

StyleChoices ==
    {NoStyle, ThrowingStyle,
     StyleBag(FALSE, Undef, Undef),
     StyleBag(TRUE, Undef, Undef),
     StyleBag(TRUE, Undef, Fin(4)),
     StyleBag(TRUE, Fin(0), Fin(4)),
     StyleBag(TRUE, Fin(1), Undef),
     StyleBag(TRUE, Fin(3), Fin(4)),
     StyleBag(TRUE, NaN, Undef)}

SizeChoices == {<<600, 400>>, <<120, 90>>}

\* the draw calls of the pipeline specification: every table of up to MaxRows
\* rows under the default options, and one table under every style and size
DrawInputs ==
    {Data(rows, NoStyle, Fields(<<"f1">>), FILTER, 600, 400) :
         rows \in SeqsUpTo(PipelineRows, MaxRows)}
    \cup
    {Data(<<Row(TextCell("A"), NumCell(Fin(3)), NumCell(Fin(5))),
            Row(TextCell("B"), NumCell(Fin(16)), NumCell(Fin(-3)))>>,
          style, Fields(<<"f1">>), FILTER, size[1], size[2]) :
         style \in StyleChoices, size \in SizeChoices}

HostRows ==
    {Row(TextCell("A"), NumCell(Fin(3)), NumCell(Fin(5))),
     Row(TextCell("B"), NumCell(Fin(16)), NumCell(Fin(-3))),
     Row(MissingCell, MissingCell, NumCell(Fin(5)))}

\* the label dimension's fields and the report's click interaction
HostFields ==
    {<<NoFields, FILTER>>, <<Fields(<<"f1">>), "NONE">>, <<Fields(<<"f1", "f2">>), FILTER>>}

\* the draw calls of the interactive specification
HostInputs ==
    {Data(rows, NoStyle, f[1], f[2], 600, 400) :
         rows \in SeqsUpTo(HostRows, MaxHostRows), f \in HostFields}

\* ------------------------------------------------------------- the state
NoLocals ==
    [items |-> <<>>, totalAbatement |-> 0, minCost |-> NaN, maxCost |-> NaN,
     decimals |-> 0, actionFieldId |-> NoField]

NoClick == [happened |-> FALSE, action |-> "", fields |-> NoFields,
            onClick |-> "NONE", sent |-> <<>>]

NoData == Data(<<>>, NoStyle, NoFields, "NONE", 600, 400)

\* the module's top level: the hidden tooltip and the empty root container
InitDom ==
    /\ root = <<>>
    /\ tooltip = [visibility |-> "hidden", html |-> NoHtml]
    /\ locals = NoLocals
    /\ hover = 0
    /\ lastClick = NoClick
    /\ drawn = FALSE

Init == InitDom /\ data = NoData

InitDraw == InitDom /\ data \in DrawInputs

\* the bars of the scene in the container
Bars ==
    IF root = <<>> THEN <<>>
    ELSE LET top == root[Len(root)]
         IN  IF top.tag = "svg" THEN top.children[Len(top.children)].children ELSE <<>>

\* ----------------------------------------------------------- the actions
\* draw(data): the container is cleared and the scene rebuilt; the bar under
\* the pointer, if any, is removed with the rest, and the click log starts
\* anew for the new scene
Draw(d) ==
    LET items == Normalize(d)
    IN  /\ data' = d
        /\ drawn' = TRUE
        /\ hover' = 0
        /\ lastClick' = NoClick
        /\ UNCHANGED tooltip
        /\ IF Len(items) = 0
           THEN /\ root' = clear(root) \o <<EmptyMessage>>
                /\ locals' = [NoLocals EXCEPT !.decimals = decimals(d),
                                              !.actionFieldId = actionFieldId(d)]
           ELSE \E sorted \in SortOutcomes(items) :
                    LET acc == Accumulate(sorted, 0)
                        total == totalAbatement(sorted)
                        lo == minCost(sorted)
                        hi == maxCost(sorted)
                    IN  /\ root' = clear(root) \o <<svg(acc, total, lo, hi, decimals(d), d)>>
                        /\ locals' = [items |-> acc, totalAbatement |-> total,
                                      minCost |-> lo, maxCost |-> hi,
                                      decimals |-> decimals(d),
                                      actionFieldId |-> actionFieldId(d)]

\* the host delivers a table
HostDraw == \E d \in HostInputs : Draw(d)

\* the one draw call of the pipeline specification
DrawPending == ~drawn /\ Draw(data)

\* mouseenter on bar i
PointerEnter(i) ==
    /\ hover = 0
    /\ i \in 1..Len(Bars)
    /\ tooltip' = showTooltip(TooltipHtml(Bars[i].d))
    /\ hover' = i
    /\ UNCHANGED <<root, locals, lastClick, data, drawn>>

\* mousemove over the entered bar
PointerMove ==
    /\ hover # 0
    /\ tooltip' = showTooltip(TooltipHtml(Bars[hover].d))
    /\ UNCHANGED <<root, locals, hover, lastClick, data, drawn>>

\* mouseleave from the entered bar
PointerLeave ==
    /\ hover # 0
    /\ tooltip' = hideTooltip
    /\ hover' = 0
    /\ UNCHANGED <<root, locals, lastClick, data, drawn>>

\* the events the click handler of a bar sends
OnClick(bar) ==
    IF data.interactions.onClick = FILTER /\ locals.actionFieldId # NoField
    THEN <<[type |-> FILTER, fieldId |-> locals.actionFieldId, value |-> bar.d.action]>>
    ELSE <<>>

\* click on the entered bar
Click ==
    /\ hover # 0
    /\ lastClick' = [happened |-> TRUE, action |-> Bars[hover].d.action,
                     fields |-> data.fields, onClick |-> data.interactions.onClick,
                     sent |-> OnClick(Bars[hover])]
    /\ UNCHANGED <<root, tooltip, locals, hover, data, drawn>>

Next ==
    \/ HostDraw
    \/ \E i \in 1..MaxHostRows : PointerEnter(i)
    \/ PointerMove
    \/ PointerLeave
    \/ Click

Spec == Init /\ [][Next]_vars

SpecDraw == InitDraw /\ [][DrawPending]_vars

\* ------------------------------------------------------------ the claims
HasChart == drawn /\ locals.items # <<>>

SceneNodes == root[Len(root)].children
AxisNodes == SceneNodes[1].children
WithRole(nodes, role) == SelectSeq(nodes, LAMBDA n : n.role = role)

RECURSIVE ExactSum(_)
ExactSum(items) ==
    IF items = <<>> THEN 0 ELSE Head(items).abatement.v + ExactSum(Tail(items))

\* C1, as stated: after the accumulation the first item starts at 0, each
\* later item starts where the previous one ends, every item's rangeEnd -
\* rangeStart equals its quantity, and the last rangeEnd equals
\* totalQuantity, the sum of the kept quantities.
C1_ExactPartition ==
    HasChart =>
        LET it == locals.items
        IN  /\ it[1].x0 = 0
            /\ \A i \in 2..Len(it) : it[i].x0 = it[i - 1].x1
            /\ \A i \in 1..Len(it) : it[i].x1 - it[i].x0 = it[i].abatement.v
            /\ it[Len(it)].x1 = locals.totalAbatement
            /\ locals.totalAbatement = ExactSum(it)

\* C1, amended: the first item starts at 0, each later item starts where the
\* previous one ends, every item's rangeEnd is the floating-point sum
\* rangeStart + quantity (so no interval is reversed, and rangeEnd -
\* rangeStart equals the quantity whenever that sum is exact), and the last
\* rangeEnd equals totalQuantity; the intervals partition [0, totalQuantity].
C1_RoundedPartition ==
    HasChart =>
        LET it == locals.items
        IN  /\ it[1].x0 = 0
            /\ \A i \in 2..Len(it) : it[i].x0 = it[i - 1].x1
            /\ \A i \in 1..Len(it) :
                   /\ it[i].x1 = Fl(it[i].x0 + it[i].abatement.v)
                   /\ it[i].x0 <= it[i].x1
                   /\ (Fl(it[i].x0 + it[i].abatement.v) = it[i].x0 + it[i].abatement.v)
                          => it[i].x1 - it[i].x0 = it[i].abatement.v
            /\ it[Len(it)].x1 = locals.totalAbatement

C1_Witness ==
    /\ HasChart
    /\ Len(locals.items) >= 2
    /\ \E i \in 1..Len(locals.items) :
           locals.items[i].x1 - locals.items[i].x0 # locals.items[i].abatement.v

\* C2: after the sort the kept items are in ascending order of cost, items of
\* equal cost keep the relative order of their rows, and the output is a
\* permutation of the kept items.
C2_SortedStable ==
    HasChart =>
        LET it == locals.items
            kept == Normalize(data)
        IN  /\ \A i, j \in 1..Len(it) :
                   (i < j /\ isFinite(it[i].cost) /\ isFinite(it[j].cost))
                       => it[i].cost.v <= it[j].cost.v
            /\ \A i, j \in 1..Len(it) :
                   (i < j /\ isFinite(it[i].cost) /\ it[i].cost = it[j].cost)
                       => it[i].row < it[j].row
            /\ Len(it) = Len(kept)
            /\ \A k \in 1..Len(kept) : \E i \in 1..Len(it) : it[i].row = kept[k].row

\* C3: no row whose quantity is <= 0 or non-finite, and no row whose cost is
\* non-finite, is among the items draw sorts, accumulates and renders.
C3_OnlyValidItems ==
    drawn =>
        /\ \A i \in 1..Len(locals.items) :
               /\ isFinite(locals.items[i].abatement)
               /\ locals.items[i].abatement.v > 0
               /\ isFinite(locals.items[i].cost)
        /\ \A i \in 1..Len(Bars) : isFinite(Bars[i].d.cost)

\* C4: for a non-empty item set minCost <= 0 <= maxCost, and every item's
\* cost lies inside [minCost, maxCost].
C4_DomainContainsZero ==
    HasChart =>
        /\ NumLeq(locals.minCost, Fin(0))
        /\ NumLeq(Fin(0), locals.maxCost)
        /\ \A i \in 1..Len(locals.items) :
               /\ NumLeq(locals.minCost, locals.items[i].cost)
               /\ NumLeq(locals.items[i].cost, locals.maxCost)

\* C5: after a draw call whose rows leave no valid item the container holds
\* exactly the empty-state message and no bar, axis or grid line, whatever
\* was drawn before.
C5_EmptyState ==
    (drawn /\ Normalize(data) = <<>>) =>
        /\ root = <<EmptyMessage>>
        /\ Bars = <<>>
        /\ \A i \in 1..Len(root) : root[i].tag # "svg"

C5_Witness ==
    /\ drawn
    /\ data.rows # <<>>
    /\ Normalize(data) = <<>>
    /\ root = <<EmptyMessage>>
    /\ tooltip.html # NoHtml

C7_SixTicksFiveLines ==
    HasChart =>
        /\ Len(WithRole(AxisNodes, "tick")) = 6
        /\ Len(WithRole(AxisNodes, "ticklabel")) = 6
        /\ Len(WithRole(SceneNodes, "grid")) = 5
        /\ Len(WithRole(SceneNodes, "gridlabel")) = 5

\* C7, amended: a draw call with items produces exactly 7 quantity-axis ticks
\* (mark and label) at totalQuantity * i / 6 for i = 0..6, from 0 to
\* totalQuantity, and exactly 6 cost-axis grid lines (line and label) at
\* minCost + (i / 5) * (maxCost - minCost) for i = 0..5, from minCost to
\* maxCost.
C7_SevenTicksSixLines ==
    HasChart =>
        LET ticks == WithRole(AxisNodes, "tick")
            tickLabels == WithRole(AxisNodes, "ticklabel")
            lines == WithRole(SceneNodes, "grid")
            lineLabels == WithRole(SceneNodes, "gridlabel")
            lo == locals.minCost
            hi == locals.maxCost
        IN  /\ Len(ticks) = 7 /\ Len(tickLabels) = 7
            /\ Len(lines) = 6 /\ Len(lineLabels) = 6
            /\ \A i \in 1..7 :
                   /\ QEq(tickLabels[i].text.value, Q(locals.totalAbatement * (i - 1), 6))
                   /\ QEq(ticks[i].x, Q(MarginLeft * 6 + (i - 1) * W(data), 6))
            /\ QEq(tickLabels[7].text.value, Q(locals.totalAbatement, 1))
            /\ \A i \in 1..6 :
                   IF isFinite(lo) /\ isFinite(hi)
                   THEN QEq(lineLabels[i].text.value,
                            Q(lo.v * 5 + (i - 1) * (hi.v - lo.v), 5))
                   ELSE lineLabels[i].text.value = QNaN
            /\ (isFinite(lo) /\ isFinite(hi)) =>
                   /\ QEq(lineLabels[1].text.value, QOf(lo))
                   /\ QEq(lineLabels[6].text.value, QOf(hi))

C7_Witness ==
    /\ HasChart
    /\ Len(locals.items) >= 2
    /\ isFinite(locals.minCost) /\ locals.minCost.v < 0
    /\ isFinite(locals.maxCost) /\ locals.maxCost.v > 0
    /\ Len(WithRole(AxisNodes, "tick")) = 7

\* C8: the number of decimal places draw uses for cost labels equals the
\* configured decimalPlaces value, for every non-negative integer including
\* 0; the default 2 is used only when the option is missing or its lookup
\* fails.
C8_ConfiguredDecimals ==
    drawn =>
        IF data.style.t = "bag" /\ data.style.e.present
               /\ isFinite(data.style.e.value) /\ data.style.e.value.v >= 0
        THEN locals.decimals = data.style.e.value.v
        ELSE (data.style.t # "bag" \/ ~data.style.e.present)
                 => locals.decimals = DefaultDecimals

\* C9: when every kept item has cost 0 the cost scale divides by 1, costToY
\* of every item's cost is zeroY, and every bar is drawn flush to the
\* baseline with the minimum height of 1 pixel, one bar per item.
C9_ZeroDomain ==
    (HasChart /\ \A i \in 1..Len(locals.items) : locals.items[i].cost = Fin(0)) =>
        LET zeroY == WithRole(AxisNodes, "baseline")[1].y
        IN  /\ QEq(zeroY, Q(MarginTop + H(data), 1))
            /\ Len(Bars) = Len(locals.items)
            /\ \A i \in 1..Len(Bars) :
                   /\ Bars[i].d = locals.items[i]
                   /\ QEq(Bars[i].y, zeroY)
                   /\ QEq(Bars[i].h, Q(1, 1))

C9_Witness ==
    /\ HasChart
    /\ Len(locals.items) >= 2
    /\ \A i \in 1..Len(locals.items) : locals.items[i].cost = Fin(0)
    /\ Len(Bars) = Len(locals.items)

\* C10: the shared tooltip is visible only while the pointer is over a bar of
\* the scene in the container, and then it shows that bar's item.
C10_TooltipFollowsPointer ==
    tooltip.visibility = "visible" =>
        /\ hover \in 1..Len(Bars)
        /\ tooltip.html = TooltipHtml(Bars[hover].d)

====
